---- MODULE Spec2Model ----
(***************************************************************************)
(* A model of chutes' Cord (src/chutes/chute/cord.py): the endpoint that   *)
(* is a client stub in the local context and a request handler in the      *)
(* remote one.  The specifications share the variables:                    *)
(*   LocalSpec   one call through the local stub (_local_call_base,        *)
(*               _local_call, _local_stream_call);                         *)
(*   RemoteSpec  inbound requests through _request_handler;                *)
(*   PathSpec    endpoint declarations on the owning services;             *)
(*   SetterSpec  the three path setters, used at and after construction;   *)
(*   BindSpec    Cord.__call__ and the callable it returns;                *)
(*   RelaySpec   _remote_call and _remote_stream_call against a sidecar;   *)
(*   CodecSpec   the envelope of (args, kwargs), encoded and decoded.      *)
(***************************************************************************)
EXTENDS Naturals, Sequences, FiniteSets, TLC

VARIABLES
  stream,            \* self._stream
  passthrough,       \* self._passthrough
  provision_timeout, \* self._provision_timeout
  n503,              \* server: how many leading POSTs it answers with 503
  final,             \* server: the status of every POST after those
  text,              \* server: response.text() of a non-200 answer
  lpc,               \* position of the local call
  tries,             \* backoff: calls of the decorated _call made so far
  elapsed,           \* backoff: seconds since the first try
  posts,             \* POSTs issued by this call
  open,              \* sessions/responses currently open
  received,          \* lines of response.content read so far
  yielded,           \* values _local_stream_call has yielded
  result,            \* _local_call's result variable
  outcome,           \* what the caller of the stub got
  passthrough_port,  \* self._passthrough_port
  reqs,              \* inbound requests, by id
  cords,             \* the endpoints registered so far, all owners
  last,              \* the last declaration or bind, and how it ended
  given,             \* the candidate handed to the last direct use of a setter
  binding,           \* one endpoint's bind: the context, the callable returned
  relay,             \* one call on the remote side and the sidecar's answer
  codec              \* one (args, kwargs) pair on its way through the envelope

cfgvars == <<stream, passthrough, provision_timeout>>
srvvars == <<n503, final, text>>
lvars == <<lpc, tries, elapsed, posts, open, received, yielded, result, outcome>>
rvars == <<passthrough_port, reqs>>
pvars == <<cords, last>>
xvars == <<given, binding, relay, codec>>
vars == <<cfgvars, srvvars, lvars, rvars, pvars, xvars>>

(***************************************************************************)
(* Bounds of the model.                                                    *)
(***************************************************************************)
MaxTimeout == 2   \* provision_timeout ranges over 0..MaxTimeout
MaxK == 2         \* the server answers 503 to at most MaxK leading POSTs
MaxPosts == 5     \* cap on the POSTs of one call
MaxFrames == 3    \* lines of one response body
MaxReqs == 2      \* inbound requests of one run
MaxCords == 2     \* endpoints registered, all owners together
MaxCalls == 2     \* invocations of the callable a bind returned
MaxChunks == 2    \* chunks of a sidecar's response body

None == "None"    \* Python's None
NoPort == 0       \* None as a port: self._passthrough_port = None, url.port

(***************************************************************************)
(* Paths.  A string is the sequence of its characters; the empty sequence  *)
(* also stands for None where the code tests a path for truth ("if path:", *)
(* "if not self._path:").                                                  *)
(***************************************************************************)
NoPath == <<>>
Alnum == {"a", "b", "0"}            \* of [a-z0-9]
Chars == Alnum \cup {"-", "_", "/", "A"}

RECURSIVE LStrip(_)
LStrip(s) == IF s # <<>> /\ Head(s) = "/" THEN LStrip(Tail(s)) ELSE s

RECURSIVE RStrip(_)
RStrip(s) ==
  IF s # <<>> /\ s[Len(s)] = "/" THEN RStrip(SubSeq(s, 1, Len(s) - 1)) ELSE s

\* "/" + path.lstrip("/").rstrip("/")
Normalize(s) == <<"/">> \o RStrip(LStrip(s))

\* "//" in path
HasDoubleSlash(s) == \E i \in 1..(Len(s) - 1) : s[i] = "/" /\ s[i + 1] = "/"

\* PATH_RE.match(path), PATH_RE = ^(/[a-z0-9]+[a-z0-9-_]*)+$ : q is the state
\* of the automaton, 0 before a "/", 1 right after it, 2 inside a segment.
\* "$" also matches before a newline that ends the string.
RECURSIVE MatchFrom(_, _)
MatchFrom(s, q) ==
  IF s = <<>> THEN q = 2
  ELSE IF s = <<"\n">> THEN q = 2
  ELSE IF q = 0 THEN Head(s) = "/" /\ MatchFrom(Tail(s), 1)
  ELSE IF q = 1 THEN Head(s) \in Alnum /\ MatchFrom(Tail(s), 2)
  ELSE IF Head(s) = "/" THEN MatchFrom(Tail(s), 1)
  ELSE Head(s) \in Alnum \cup {"-", "_"} /\ MatchFrom(Tail(s), 2)
PathReMatch(s) == MatchFrom(s, 0)

\* last: the operation, its owner, and the exception it raised with the
\* exception's argument (err "" and no argument when it returned).
NoOp == [op |-> "none", app |-> 0, err |-> "", arg |-> NoPath]

\* given: the endpoint (its index in cords, 0 for one that was not
\* registered) and the candidate of the last direct use of a setter.
NoGiven == [at |-> 0, candidate |-> NoPath]

\* The values of binding, relay and codec while nothing is bound, relayed or
\* encoded.
NoBinding == [callable |-> "none", queries |-> 0]
NoRelay == [pc |-> "idle"]
NoCodec == [pc |-> "idle"]

Unused ==
  /\ given = NoGiven
  /\ binding = NoBinding
  /\ relay = NoRelay
  /\ codec = NoCodec

(***************************************************************************)
(* Local stub: the retrying transport.                                     *)
(***************************************************************************)

\* backoff.on_exception(..., interval=1, ...)
Interval == 1

Statuses == {200, 404, 500, 503}
Texts == {"no such chute", "boom"}

\* The status of the j-th POST of a call.
StatusOf(j) == IF j <= n503 THEN 503 ELSE final

\* response.status == 503  (IsProvisioningMut: the test widened to every
\* status but 200)
IsProvisioningMut(status) == status # 200
IsProvisioning(status) == status = 503

\* Where an exception of the call is raised.  backoff.on_exception wraps the
\* function that asynccontextmanager returns.  That function is a plain
\* (non-coroutine) function, so backoff uses its synchronous retry loop,
\* whose try block holds only the call target(*args, **kwargs).  The call
\* builds the context manager and runs nothing of _call's body; the body, and
\* the raise in it, run in __aenter__, at "async with _call() as response".
RaiseSite == "aenter"

\* The retry loop of backoff gives up (re-raises) when the exception did not
\* come out of target(), or when max_time has elapsed.  (GiveUpMut: a loop
\* that never gives up.)
GiveUpMut(site, secs, max_time) == FALSE
GiveUp(site, secs, max_time) == site # "target" \/ secs >= max_time

\* backoff's _next_wait: the interval, cut to what is left of max_time.
NextWait(secs, max_time) ==
  IF max_time - secs < Interval THEN max_time - secs ELSE Interval

\* Whether leaving the "async with" blocks of _call on this path closes the
\* response and the session: always, __aexit__ runs on every path.
\* (ReleasesMut: a close placed after the loop instead of a with block,
\* reached only when nothing is raised.)
ReleasesMut(path) == path \in {"exhausted", "status"}
Releases(path) == path \in {"exhausted", "status", "error", "aclose"}

Closed(path) == IF Releases(path) THEN open - 1 ELSE open

NoOutcome == [kind |-> "none", exc |-> "", val |-> ""]
Raise(exc, val) == [kind |-> "raise", exc |-> exc, val |-> val]
Return(val) == [kind |-> "return", exc |-> "", val |-> val]
Exhausted == [kind |-> "exhausted", exc |-> "", val |-> ""]

\* _local_call_base: "async with _call() as response" first calls _call(),
\* that is backoff's retry wrapper around the context manager factory.
CallBase ==
  /\ lpc = "call"
  /\ tries' = tries + 1
  /\ lpc' = "enter"
  /\ UNCHANGED <<elapsed, posts, open, received, yielded, result, outcome>>
  /\ UNCHANGED <<xvars, cfgvars, srvvars, rvars, pvars>>

\* __aenter__ of _call: the payload is built and signed, the session opened
\* and the POST issued.
Post ==
  /\ lpc = "enter"
  /\ posts < MaxPosts
  /\ posts' = posts + 1
  /\ open' = open + 1
  /\ lpc' = "posted"
  /\ UNCHANGED <<tries, elapsed, received, yielded, result, outcome>>
  /\ UNCHANGED <<xvars, cfgvars, srvvars, rvars, pvars>>

\* The answer is 503: StillProvisioning(await response.text()) is raised.
Respond503 ==
  /\ lpc = "posted"
  /\ IsProvisioning(StatusOf(posts))
  /\ open' = Closed("status")
  /\ IF GiveUp(RaiseSite, elapsed, provision_timeout)
       THEN /\ outcome' = Raise("StillProvisioning", text)
            /\ lpc' = "done"
            /\ UNCHANGED elapsed
       ELSE /\ elapsed' = elapsed + NextWait(elapsed, provision_timeout)
            /\ lpc' = "call"
            /\ UNCHANGED outcome
  /\ UNCHANGED <<tries, posts, received, yielded, result>>
  /\ UNCHANGED <<xvars, cfgvars, srvvars, rvars, pvars>>

\* Any other status than 200: Exception(await response.text()) is raised.
RespondError ==
  /\ lpc = "posted"
  /\ ~IsProvisioning(StatusOf(posts))
  /\ StatusOf(posts) # 200
  /\ open' = Closed("status")
  /\ outcome' = Raise("Exception", text)
  /\ lpc' = "done"
  /\ UNCHANGED <<tries, elapsed, posts, received, yielded, result>>
  /\ UNCHANGED <<xvars, cfgvars, srvvars, rvars, pvars>>

\* 200: the response is yielded to _local_stream_call.
Respond200 ==
  /\ lpc = "posted"
  /\ ~IsProvisioning(StatusOf(posts))
  /\ StatusOf(posts) = 200
  /\ lpc' = "iter"
  /\ UNCHANGED <<tries, elapsed, posts, open, received, yielded, result, outcome>>
  /\ UNCHANGED <<xvars, cfgvars, srvvars, rvars, pvars>>

(***************************************************************************)
(* Local stub: the event stream.                                           *)
(***************************************************************************)

\* One line of response.content.  framing "sse" is a line 'data: {json}',
\* "bare" a line holding the JSON object without the 'data: ' prefix, "blank"
\* an empty line.  The JSON object has the one key `key`, and val is the JSON
\* text of its value.
Frame(framing, key, val) == [framing |-> framing, key |-> key, val |-> val]
BlankLine == Frame("blank", "", "")
TraceObj == "{\"timestamp\": \"t\", \"message\": \"m\"}"
ResultVals == {"\"A\"", "42", "0"}
ErrorVals == {"\"E\"", "\"\""}
Frames ==
  {BlankLine, Frame("bare", "result", "42"), Frame("sse", "trace", TraceObj)}
    \cup {Frame("sse", "error", v) : v \in ErrorVals}
    \cup {Frame("sse", "result", v) : v \in ResultVals}

\* "if not content or not content.strip() or 'data: {' not in content: continue"
Skipped(f) == f.framing # "sse"

\* data.get(k) of data = json.loads(content[6:])
Get(f, k) == IF f.key = k THEN f.val ELSE None

\* Python's truth value of a decoded JSON value (or of None).
Truthy(v) == v \notin {None, "null", "false", "0", "\"\"", "[]", "{}"}

\* The wrapped function, applied on the local side to a streamed value when
\* passthrough is set: "yield await self._func(data['result'])".
Func(v) == "f(" \o v \o ")"

\* What the elif chain of _local_stream_call does with a line that was not
\* skipped: "log", "raise", "yield" or "drop".
Branch(f) ==
  IF Truthy(Get(f, "trace")) THEN "log"
  ELSE IF Truthy(Get(f, "error")) THEN "raise"
  ELSE IF Truthy(Get(f, "result")) THEN "yield"
  ELSE "drop"

\* The value handed over for a line on the "yield" branch.  (ItemMut: the
\* wrapped function applied whatever the passthrough flag.)
ItemMut(f) == Func(f.val)
Item(f) == IF passthrough THEN Func(f.val) ELSE f.val

\* One turn of "async for encoded_content in response.content", up to the
\* next suspension.  In unary mode the value goes to _local_call, which
\* stores it in result and asks for the next one at once.
ReadLine ==
  /\ lpc = "iter"
  /\ Len(received) < MaxFrames
  /\ \E f \in Frames :
       /\ received' = Append(received, f)
       /\ IF Skipped(f) \/ Branch(f) \in {"log", "drop"}
            THEN UNCHANGED <<lpc, open, yielded, result, outcome>>
          ELSE IF Branch(f) = "raise"
            THEN /\ outcome' = Raise("Exception", f.val)
                 /\ open' = Closed("error")
                 /\ lpc' = "done"
                 /\ UNCHANGED <<yielded, result>>
          ELSE IF stream
            THEN /\ yielded' = Append(yielded, Item(f))
                 /\ lpc' = "yielded"
                 /\ UNCHANGED <<open, result, outcome>>
          ELSE /\ result' = Item(f)
               /\ UNCHANGED <<lpc, open, yielded, outcome>>
  /\ UNCHANGED <<tries, elapsed, posts>>
  /\ UNCHANGED <<xvars, cfgvars, srvvars, rvars, pvars>>

\* The body ends: the loop and both "async with" blocks are left.  The
\* streaming stub is exhausted; the unary stub returns result.
EndOfStream ==
  /\ lpc = "iter"
  /\ open' = Closed("exhausted")
  /\ outcome' = IF stream THEN Exhausted ELSE Return(result)
  /\ lpc' = "done"
  /\ UNCHANGED <<tries, elapsed, posts, received, yielded, result>>
  /\ UNCHANGED <<xvars, cfgvars, srvvars, rvars, pvars>>

\* The caller of the streaming stub asks for the next value.
Pull ==
  /\ lpc = "yielded"
  /\ lpc' = "iter"
  /\ UNCHANGED <<tries, elapsed, posts, open, received, yielded, result, outcome>>
  /\ UNCHANGED <<xvars, cfgvars, srvvars, rvars, pvars>>

\* The caller of the streaming stub stops pulling (a break, or an exception
\* in its loop body): the generator stays suspended at its yield, inside the
\* "async with" block.
Abandon ==
  /\ lpc = "yielded"
  /\ lpc' = "abandoned"
  /\ UNCHANGED <<tries, elapsed, posts, open, received, yielded, result, outcome>>
  /\ UNCHANGED <<xvars, cfgvars, srvvars, rvars, pvars>>

\* The abandoned generator is closed (aclose(), by the caller or by the event
\* loop's finalizer hook once the generator is unreachable, at the latest by
\* shutdown_asyncgens): GeneratorExit is thrown in at the yield and the
\* "async with" blocks are left.
Finalize ==
  /\ lpc = "abandoned"
  /\ open' = Closed("aclose")
  /\ lpc' = "finalized"
  /\ UNCHANGED <<tries, elapsed, posts, received, yielded, result, outcome>>
  /\ UNCHANGED <<xvars, cfgvars, srvvars, rvars, pvars>>

LocalInit ==
  /\ stream \in BOOLEAN
  /\ passthrough \in BOOLEAN
  /\ provision_timeout \in 0..MaxTimeout
  /\ n503 \in 0..MaxK
  /\ final \in Statuses
  /\ text \in Texts
  /\ lpc = "call"
  /\ tries = 0
  /\ elapsed = 0
  /\ posts = 0
  /\ open = 0
  /\ received = <<>>
  /\ yielded = <<>>
  /\ result = None
  /\ outcome = NoOutcome
  /\ passthrough_port = NoPort
  /\ reqs = <<>>
  /\ cords = <<>>
  /\ last = NoOp
  /\ Unused

LocalNext ==
  \/ CallBase
  \/ Post
  \/ Respond503
  \/ RespondError
  \/ Respond200
  \/ ReadLine
  \/ EndOfStream
  \/ Pull
  \/ Abandon
  \/ Finalize

LocalSpec == LocalInit /\ [][LocalNext]_vars

\* The runtime closes an abandoned generator.
LocalFairSpec == LocalSpec /\ WF_vars(Finalize)

(***************************************************************************)
(* Properties of the local stub.                                           *)
(***************************************************************************)

\* The events of a body: its 'data: {json}' lines.
IsEvent(f) == f.framing = "sse"
IsResult(f) == f.key = "result"
Events(lines) == SelectSeq(lines, IsEvent)
ErrorAt(ev) == {i \in 1..Len(ev) : ev[i].key = "error"}
FirstError(ev) == CHOOSE i \in ErrorAt(ev) : \A j \in ErrorAt(ev) : i <= j
BeforeFirstError(ev) ==
  IF ErrorAt(ev) = {} THEN ev ELSE SubSeq(ev, 1, FirstError(ev) - 1)

\* A Result value as the caller is to get it: as it is, or, with passthrough
\* set, passed through the wrapped function (spec 4.4).
Expect(v) == IF passthrough THEN Func(v) ELSE v
ResultsOf(ev) ==
  LET rs == SelectSeq(ev, IsResult) IN [i \in 1..Len(rs) |-> Expect(rs[i].val)]

RECURSIVE IsSubseq(_, _)
IsSubseq(a, b) ==
  IF a = <<>> THEN TRUE
  ELSE IF b = <<>> THEN FALSE
  ELSE IF Head(a) = Head(b) THEN IsSubseq(Tail(a), Tail(b))
  ELSE IsSubseq(a, Tail(b))

Terminated == lpc \in {"done", "finalized"}

\* C1: when the server answers 503 to the first k POSTs (k >= 1) and 200
\* afterwards, and the k one-second intervals fit within provision_timeout,
\* the caller never sees StillProvisioning and a finished call has handed
\* the 200 response over after k + 1 POSTs.
C1_RetryUntilReady ==
  (n503 >= 1 /\ n503 * Interval <= provision_timeout /\ final = 200)
    => /\ ~(outcome.kind = "raise" /\ outcome.exc = "StillProvisioning")
       /\ Terminated => posts = n503 + 1

\* C2: when the server answers every POST with 503, the number of POSTs stays
\* within the elapsed-time budget (one per second of provision_timeout, plus
\* the first), the call never gets stuck before its end, and it ends by
\* raising a failure to the caller.
C2_BoundedRetry ==
  final = 503
    => /\ posts * Interval <= provision_timeout + Interval
       /\ Terminated \/ ENABLED LocalNext
       /\ Terminated => outcome.kind = "raise"

C2_Witness ==
  /\ final = 503
  /\ lpc = "done"
  /\ posts >= 1
  /\ outcome = Raise("StillProvisioning", text)

\* C3: once a POST is answered with a status that is neither 200 nor 503 the
\* call issues no further POST (it is at that answer, or over), it ends with
\* an error whose detail is the response body text, and when that answer was
\* the first one exactly one POST was issued.
C3_PermanentFailure ==
  (posts >= 1 /\ StatusOf(posts) \notin {200, 503})
    => /\ lpc \in {"posted", "done"}
       /\ lpc = "done" => outcome = Raise("Exception", text)
       /\ n503 = 0 => posts = 1

C3_Witness ==
  /\ n503 = 0
  /\ final \in {404, 500}
  /\ lpc = "done"
  /\ posts = 1
  /\ outcome = Raise("Exception", text)

\* C4: in streaming mode the values yielded are Result values of the events
\* received before the first Error event, in arrival order and without
\* duplication (so no Trace event is among them), and as soon as an Error
\* event has been received the stub has raised with that error's message.
C4_StreamOrder ==
  (stream /\ lpc \in {"iter", "yielded", "abandoned", "finalized", "done"})
    => LET ev == Events(received) IN
       /\ IsSubseq(yielded, ResultsOf(BeforeFirstError(ev)))
       /\ ErrorAt(ev) # {}
            => /\ lpc = "done"
               /\ outcome = Raise("Exception", ev[FirstError(ev)].val)

C6_UnaryLast ==
  (~stream /\ lpc = "done" /\ StatusOf(posts) = 200 /\ posts >= 1)
    => LET ev == Events(received)
           rs == ResultsOf(ev)
       IN ErrorAt(ev) = {}
            => outcome = Return(IF rs = <<>> THEN None ELSE rs[Len(rs)])

\* C18: in streaming mode every Result event received before the first Error
\* event has been yielded, whatever its value: the values yielded are the
\* values of those events, as many and in the same order.  (While the stub
\* is suspended at a yield or reading, everything received has been dealt
\* with.)
C18_EveryResultYielded ==
  (stream /\ lpc \in {"iter", "yielded", "abandoned", "finalized", "done"})
    => LET before == BeforeFirstError(Events(received)) IN
       /\ Len(yielded) = Len(SelectSeq(before, IsResult))
       /\ yielded = ResultsOf(before)

Ports == {NoPort, 8001, 9000}

\* f"http://127.0.0.1:{self._passthrough_port or 8000}"
DefaultPort == 8000

\* What the two fields of an envelope hold: a pickle fickling accepts, one
\* it flags as unsafe, or bytes that do not decode (base64, gzip, pickle).
ArgsKinds == {"safe", "unsafe", "garbled"}
KwargsKinds == {"safe", "unsafe"}

\* The try block of _request_handler: args is decoded first, then kwargs;
\* the first failure ends the block.  (DecodeMut: kwargs loaded without
\* the safety check.)
DecodeMut(a, k) ==
  IF a = "unsafe" THEN "unsafe" ELSE IF a = "garbled" THEN "garbled" ELSE "ok"
Decode(a, k) ==
  IF a = "unsafe" THEN "unsafe"
  ELSE IF a = "garbled" THEN "garbled"
  ELSE IF k = "unsafe" THEN "unsafe"
  ELSE "ok"

\* The names fastapi.status (starlette.status) defines for 401 and 403.
StatusCodes ==
  [n \in {"HTTP_401_UNAUTHORIZED", "HTTP_403_FORBIDDEN"} |->
     IF n = "HTTP_401_UNAUTHORIZED" THEN 401 ELSE 403]

BlockedMessage == "Detected potentially hazardous call arguments, blocking"
Response(code, detail) == [status |-> code, detail |-> detail]
NoResponse == Response(0, "")
ServerError == Response(500, "Internal Server Error")

\* The except clause: HTTPException(status_code=status.HTTP_401_FORBIDDEN,
\* detail=message).  The module has no attribute of that name, so evaluating
\* the argument raises AttributeError inside the handler and the framework
\* answers the unhandled exception with 500.
Rejection(name) ==
  IF name \in DOMAIN StatusCodes
    THEN Response(StatusCodes[name], BlockedMessage)
    ELSE ServerError

\* _passthrough_call: base_url of the session.
Target(port) == IF port = NoPort THEN DefaultPort ELSE port

NewRequest(port, a, k) ==
  [pc |-> "new", port |-> port, args |-> a, kwargs |-> k,
   invoked |-> "none", target |-> NoPort, response |-> NoResponse]

\* An inbound request reaches the endpoint.
Arrive ==
  /\ Len(reqs) < MaxReqs
  /\ \E port \in Ports, a \in ArgsKinds, k \in KwargsKinds :
       reqs' = Append(reqs, NewRequest(port, a, k))
  /\ UNCHANGED <<passthrough_port, xvars, cfgvars, srvvars, lvars, pvars>>

\* _request_handler up to "await request.json()": the port is captured.
\* (HandlerStartMut: the port taken from every request, without the test
\* "is None".  HandlerStartLateMut: the port taken only from a request whose
\* envelope decodes, as if the capture came after the try block.)
HandlerStartLateMut(i) ==
  /\ reqs[i].pc = "new"
  /\ passthrough_port' =
       IF passthrough_port = NoPort /\ Decode(reqs[i].args, reqs[i].kwargs) = "ok"
         THEN reqs[i].port ELSE passthrough_port
  /\ reqs' = [reqs EXCEPT ![i].pc = "json"]
  /\ UNCHANGED <<xvars, cfgvars, srvvars, lvars, pvars>>
HandlerStartMut(i) ==
  /\ reqs[i].pc = "new"
  /\ passthrough_port' = reqs[i].port
  /\ reqs' = [reqs EXCEPT ![i].pc = "json"]
  /\ UNCHANGED <<xvars, cfgvars, srvvars, lvars, pvars>>
HandlerStart(i) ==
  /\ reqs[i].pc = "new"
  /\ passthrough_port' =
       IF passthrough_port = NoPort THEN reqs[i].port ELSE passthrough_port
  /\ reqs' = [reqs EXCEPT ![i].pc = "json"]
  /\ UNCHANGED <<xvars, cfgvars, srvvars, lvars, pvars>>

\* What _remote_call and _remote_stream_call start with: the forward to the
\* sidecar when passthrough is set, the wrapped function otherwise.
Dispatch(r) ==
  IF passthrough
    THEN [r EXCEPT !.invoked = "forward", !.target = Target(passthrough_port)]
    ELSE [r EXCEPT !.invoked = "func"]

\* _request_handler from the decoded body on: the envelope is decoded and the
\* call dispatched.  A unary call runs up to its first await; a streaming
\* call returns the StreamingResponse, whose generator has not started.
HandlerDecode(i) ==
  /\ reqs[i].pc = "json"
  /\ LET r == reqs[i]
         d == Decode(r.args, r.kwargs)
     IN reqs' = [reqs EXCEPT ![i] =
          IF d = "unsafe"
            THEN [r EXCEPT !.pc = "done",
                           !.response = Rejection("HTTP_401_FORBIDDEN")]
          ELSE IF d = "garbled"
            THEN [r EXCEPT !.pc = "done", !.response = ServerError]
          ELSE IF stream
            THEN [r EXCEPT !.pc = "response"]
          ELSE [Dispatch(r) EXCEPT !.pc = "await"]]
  /\ UNCHANGED <<passthrough_port, xvars, cfgvars, srvvars, lvars, pvars>>

\* The framework starts iterating the StreamingResponse's generator.
StreamStart(i) ==
  /\ reqs[i].pc = "response"
  /\ reqs' = [reqs EXCEPT ![i] = [Dispatch(reqs[i]) EXCEPT !.pc = "await"]]
  /\ UNCHANGED <<passthrough_port, xvars, cfgvars, srvvars, lvars, pvars>>

\* The sidecar or the wrapped function is through: the request is answered.
Complete(i) ==
  /\ reqs[i].pc = "await"
  /\ reqs' = [reqs EXCEPT ![i].pc = "done", ![i].response = Response(200, "")]
  /\ UNCHANGED <<passthrough_port, xvars, cfgvars, srvvars, lvars, pvars>>

RemoteInit ==
  /\ stream \in BOOLEAN
  /\ passthrough \in BOOLEAN
  /\ provision_timeout = 0
  /\ n503 = 0
  /\ final = 200
  /\ text = ""
  /\ lpc = "idle"
  /\ tries = 0
  /\ elapsed = 0
  /\ posts = 0
  /\ open = 0
  /\ received = <<>>
  /\ yielded = <<>>
  /\ result = None
  /\ outcome = NoOutcome
  /\ passthrough_port = NoPort
  /\ reqs = <<>>
  /\ cords = <<>>
  /\ last = NoOp
  /\ Unused

RemoteNext ==
  \/ Arrive
  \/ \E i \in 1..Len(reqs) : HandlerStart(i)
  \/ \E i \in 1..Len(reqs) : HandlerDecode(i)
  \/ \E i \in 1..Len(reqs) : StreamStart(i)
  \/ \E i \in 1..Len(reqs) : Complete(i)

RemoteSpec == RemoteInit /\ [][RemoteNext]_vars

(***************************************************************************)
(* Properties of the remote handler.                                       *)
(***************************************************************************)

Unsafe(r) ==
  \/ r.args = "unsafe"
  \/ r.args = "safe" /\ r.kwargs = "unsafe"

\* C8: a request whose args or kwargs were rejected as unsafe never has the
\* wrapped function or the passthrough forwarder invoked, in unary and in
\* streaming mode, and it ends in a failure.
C8_UnsafeNeverDispatched ==
  \A i \in 1..Len(reqs) :
    Unsafe(reqs[i])
      => /\ reqs[i].invoked = "none"
         /\ reqs[i].pc \in {"new", "json", "done"}
         /\ reqs[i].pc = "done" => reqs[i].response.status >= 400

C8_Witness ==
  \E i \in 1..Len(reqs) :
    /\ reqs[i].args = "safe"
    /\ reqs[i].kwargs = "unsafe"
    /\ reqs[i].pc = "done"
    /\ reqs[i].invoked = "none"

\* C9: a request rejected as unsafe is answered with status 401 and a detail
\* carrying the rejection reason, never with a server error.
C9_UnsafeAnswered401 ==
  \A i \in 1..Len(reqs) :
    (Unsafe(reqs[i]) /\ reqs[i].pc = "done")
      => reqs[i].response = Response(401, BlockedMessage)

\* C16: once the passthrough port holds a captured value no step changes it;
\* the value it takes is the port of the request whose handler starts in that
\* step; and a forward, when it is made, targets the port captured by then,
\* or 8000 when none has been captured.
C16_PortCapturedOnce ==
  [][/\ passthrough_port # NoPort => passthrough_port' = passthrough_port
     /\ (passthrough_port = NoPort /\ passthrough_port' # NoPort)
          => \E i \in 1..Len(reqs) :
               /\ reqs[i].pc = "new" /\ reqs'[i].pc = "json"
               /\ reqs[i].port = passthrough_port'
     /\ \A i \in 1..Len(reqs) :
          (reqs[i].invoked = "none" /\ reqs'[i].invoked = "forward")
            => reqs'[i].target =
                 IF passthrough_port = NoPort THEN 8000 ELSE passthrough_port]_vars

\* Two requests naming different ports were both past the capture before
\* either was decoded; the handler of the second ran first, and the forward
\* of the first went to the port of the second.
C16_Witness ==
  /\ Len(reqs) = 2
  /\ reqs[1].port = 8001
  /\ reqs[2].port = 9000
  /\ passthrough_port = 9000
  /\ reqs[1].invoked = "forward"
  /\ reqs[1].target = 9000
  /\ reqs[2].pc = "json"

\* A request that was answered with a failure before anything was invoked.
Rejected(r) == r.pc = "done" /\ r.invoked = "none" /\ r.response.status >= 400

\* C21: the port is captured before the envelope is decoded: a request whose
\* handler has started and whose URL names a port has left a port captured,
\* also when it was rejected; a rejected request that was the only one to
\* start has left its own port as the passthrough port; and the forward of
\* a request naming another port goes to the port the rejected one fixed.
C21_CaptureBeforeDecode ==
  /\ \A i \in 1..Len(reqs) :
       (reqs[i].pc # "new" /\ reqs[i].port # NoPort) => passthrough_port # NoPort
  /\ \A i \in 1..Len(reqs) :
       (Rejected(reqs[i]) /\ \A j \in 1..Len(reqs) : j # i => reqs[j].pc = "new")
         => passthrough_port = reqs[i].port
  /\ \A i, j \in 1..Len(reqs) :
       ( /\ Rejected(reqs[i])
         /\ reqs[i].port # NoPort
         /\ passthrough_port = reqs[i].port
         /\ reqs[j].invoked = "forward"
         /\ reqs[j].port \notin {NoPort, reqs[i].port} )
         => reqs[j].target = reqs[i].port

\* The first request was rejected as unsafe and the second, naming another
\* port, was forwarded to the port of the first.
C21_Witness ==
  /\ Len(reqs) = 2
  /\ reqs[1].args = "unsafe"
  /\ reqs[1].port = 8001
  /\ Rejected(reqs[1])
  /\ reqs[2].port = 9000
  /\ reqs[2].invoked = "forward"
  /\ reqs[2].target = 8001
  /\ passthrough_port = 8001

(***************************************************************************)
(* Declarations: Cord.__init__, the path setters and Cord.__call__.        *)
(***************************************************************************)
Apps == {1, 2}

\* What is given as path at a declaration: nothing, or a candidate.
PathInputs == {NoPath, <<"/", "a", "/">>, <<"b">>, <<"A">>}
PassthroughInputs == {NoPath, <<"A">>}
PublicInputs == {NoPath, <<"A">>}
\* func.__name__ of the functions bound.
FuncNames == {<<"a">>, <<"A">>}

\* "any([cord.path == path for cord in self._app.cords])"
\* (IsDuplicateMut: the test left out.)
IsDuplicateMut(app, path) == FALSE
IsDuplicate(app, path) ==
  \E i \in 1..Len(cords) : cords[i].app = app /\ cords[i].path = path

\* A setter's end: the path it stored, or the exception raised and its
\* argument, "raise InvalidPath(path)", "raise DuplicatePath(path)".
Set(path) == [err |-> "", path |-> path, arg |-> NoPath]
Fail(err, path) == [err |-> err, path |-> NoPath, arg |-> path]

\* The tests shared by the three setters.
Invalid(path) == HasDoubleSlash(path) \/ ~PathReMatch(path)

\* Cord.path setter  (PathSetterMut: the candidate stored as it was given.)
PathSetterMut(app, candidate) ==
  LET path == Normalize(candidate) IN
  IF Invalid(path) THEN Fail("InvalidPath", path)
  ELSE IF IsDuplicate(app, path) THEN Fail("DuplicatePath", path)
  ELSE Set(candidate)
PathSetter(app, candidate) ==
  LET path == Normalize(candidate) IN
  IF Invalid(path) THEN Fail("InvalidPath", path)
  ELSE IF IsDuplicate(app, path) THEN Fail("DuplicatePath", path)
  ELSE Set(path)

\* Cord.passthrough_path and Cord.public_api_path setters
\* (PlainSetterMut: the normalized candidate stored without the test.)
PlainSetterMut(candidate) == Set(Normalize(candidate))
PlainSetter(candidate) ==
  LET path == Normalize(candidate) IN
  IF Invalid(path) THEN Fail("InvalidPath", path) ELSE Set(path)

\* Cord.__init__: each path that is given goes through its setter, in the
\* order path, passthrough_path, public_api_path; the first exception ends
\* the construction.
Construct(app, p, pp, pub) ==
  LET a == IF p # NoPath THEN PathSetter(app, p) ELSE Set(NoPath)
      b == IF pp # NoPath THEN PlainSetter(pp) ELSE Set(NoPath)
      c == IF pub # NoPath THEN PlainSetter(pub) ELSE Set(NoPath)
      end == IF a.err # "" THEN a ELSE IF b.err # "" THEN b ELSE c
  IN [err |-> end.err, arg |-> end.arg,
      cord |-> [app |-> app, path |-> a.path, passthrough_path |-> b.path,
                public_api_path |-> c.path, func |-> NoPath]]

\* The owner's registration of a cord it constructed: appended to app.cords.
Register(cord) == Append(cords, cord)

\* An endpoint is declared on an owner: the Cord is constructed and, when
\* the constructor returns, registered.
Declare ==
  /\ \E app \in Apps, p \in PathInputs, pp \in PassthroughInputs,
        pub \in PublicInputs :
       LET made == Construct(app, p, pp, pub) IN
       /\ made.err = "" => Len(cords) < MaxCords
       /\ cords' = IF made.err = "" THEN Register(made.cord) ELSE cords
       /\ last' = [op |-> "declare", app |-> app, err |-> made.err,
                   arg |-> made.arg]
  /\ UNCHANGED <<xvars, cfgvars, srvvars, lvars, rvars>>

\* Cord.__call__: the function is attached, and a path that is still unset
\* defaults to the function's name.
Call(i, name) ==
  LET c == cords[i]
      a == IF c.path = NoPath THEN PathSetter(c.app, name) ELSE Set(c.path)
      b == IF a.err = "" /\ c.passthrough_path = NoPath
             THEN PlainSetter(name) ELSE Set(c.passthrough_path)
      end == IF a.err # "" THEN a ELSE b
  IN [err |-> end.err, arg |-> end.arg,
      cord |-> [c EXCEPT !.func = name,
                         !.path = IF a.err = "" THEN a.path ELSE c.path,
                         !.passthrough_path =
                           IF a.err = "" /\ b.err = "" THEN b.path
                           ELSE c.passthrough_path]]

Bind ==
  \E i \in 1..Len(cords), name \in FuncNames :
    LET bound == Call(i, name) IN
    /\ cords' = [cords EXCEPT ![i] = bound.cord]
    /\ last' = [op |-> "bind", app |-> cords[i].app, err |-> bound.err,
                arg |-> bound.arg]
    /\ UNCHANGED <<xvars, cfgvars, srvvars, lvars, rvars>>

PathInit ==
  /\ stream = FALSE
  /\ passthrough = FALSE
  /\ provision_timeout = 0
  /\ n503 = 0
  /\ final = 200
  /\ text = ""
  /\ lpc = "idle"
  /\ tries = 0
  /\ elapsed = 0
  /\ posts = 0
  /\ open = 0
  /\ received = <<>>
  /\ yielded = <<>>
  /\ result = None
  /\ outcome = NoOutcome
  /\ passthrough_port = NoPort
  /\ reqs = <<>>
  /\ cords = <<>>
  /\ last = NoOp
  /\ Unused

PathNext ==
  \/ Declare
  \/ Bind

PathSpec == PathInit /\ [][PathNext]_vars

(***************************************************************************)
(* Properties of the declarations.                                         *)
(***************************************************************************)

\* The cords registered before the last operation.
Before ==
  IF last.op = "declare" /\ last.err = ""
    THEN SubSeq(cords, 1, Len(cords) - 1) ELSE cords

TakenBefore(app, path) ==
  \E i \in 1..Len(Before) : Before[i].app = app /\ Before[i].path = path

\* C10: the endpoints registered on one owner have pairwise distinct primary
\* paths; a declaration fails with DuplicatePath only for a normalized path
\* that is registered on the same owner, and no declaration with a path that
\* is registered on its owner ends otherwise; the same path on another owner
\* does not make a declaration fail.
C10_UniquePaths ==
  /\ \A i, j \in 1..Len(cords) :
       (i # j /\ cords[i].app = cords[j].app /\ cords[i].path # NoPath)
         => cords[i].path # cords[j].path
  /\ (last.op = "declare" /\ last.err = "DuplicatePath")
       => TakenBefore(last.app, last.arg)
  /\ (last.op = "declare" /\ last.err = "InvalidPath")
       => Invalid(last.arg)
  /\ (last.op = "declare" /\ last.err = "")
       => LET new == cords[Len(cords)] IN
          /\ new.app = last.app
          /\ new.path # NoPath => ~TakenBefore(new.app, new.path)

\* A declaration failed with DuplicatePath on one owner after the same
\* normalized path was registered on both owners.
C10_Witness ==
  /\ last.op = "declare"
  /\ last.err = "DuplicatePath"
  /\ Len(cords) = 2
  /\ cords[1].app # cords[2].app
  /\ cords[1].path = cords[2].path
  /\ cords[1].path = last.arg

\* The step is a bind of the function named name on the endpoint i.
BindStep(i, name) ==
  LET bound == Call(i, name) IN
  /\ cords' = [cords EXCEPT ![i] = bound.cord]
  /\ last' = [op |-> "bind", app |-> cords[i].app, err |-> bound.err,
              arg |-> bound.arg]

Owner == 1

\* Candidates handed to the path setter: "", "a", "/a/", "b", "a//b", "A"
\* and "a" followed by a newline.
Candidates ==
  {NoPath, <<"a">>, <<"/", "a", "/">>, <<"b">>, <<"a", "/", "/", "b">>,
   <<"A">>, <<"a", "\n">>}
PassthroughCandidates == {NoPath, <<"a">>}
PublicCandidates == {NoPath, <<"a">>, <<"A">>}

\* Cord(app, path=p, passthrough_path=pp, public_api_path=pub), registered
\* by the owner when the constructor returns.
NewCord ==
  /\ \E p \in Candidates, pp \in PassthroughCandidates,
        pub \in PublicCandidates :
       LET made == Construct(Owner, p, pp, pub) IN
       /\ made.err = "" => Len(cords) < MaxCords
       /\ cords' = IF made.err = "" THEN Register(made.cord) ELSE cords
       /\ last' = [op |-> "declare", app |-> Owner, err |-> made.err,
                   arg |-> made.arg]
       /\ given' = [at |-> IF made.err = "" THEN Len(cords) + 1 ELSE 0,
                    candidate |-> p]
  /\ UNCHANGED <<binding, relay, codec, cfgvars, srvvars, lvars, rvars>>

\* cord.path = candidate, on a registered endpoint.
SetPath ==
  /\ \E i \in 1..Len(cords), candidate \in Candidates :
       LET end == PathSetter(cords[i].app, candidate) IN
       /\ cords' = IF end.err = "" THEN [cords EXCEPT ![i].path = end.path]
                   ELSE cords
       /\ last' = [op |-> "path", app |-> cords[i].app, err |-> end.err,
                   arg |-> end.arg]
       /\ given' = [at |-> i, candidate |-> candidate]
  /\ UNCHANGED <<binding, relay, codec, cfgvars, srvvars, lvars, rvars>>

\* cord.passthrough_path = candidate
SetPassthroughPath ==
  /\ \E i \in 1..Len(cords), candidate \in PassthroughCandidates :
       LET end == PlainSetter(candidate) IN
       /\ cords' = IF end.err = ""
                     THEN [cords EXCEPT ![i].passthrough_path = end.path]
                   ELSE cords
       /\ last' = [op |-> "passthrough_path", app |-> cords[i].app,
                   err |-> end.err, arg |-> end.arg]
       /\ given' = [at |-> i, candidate |-> candidate]
  /\ UNCHANGED <<binding, relay, codec, cfgvars, srvvars, lvars, rvars>>

\* cord.public_api_path = candidate
SetPublicApiPath ==
  /\ \E i \in 1..Len(cords), candidate \in PublicCandidates :
       LET end == PlainSetter(candidate) IN
       /\ cords' = IF end.err = ""
                     THEN [cords EXCEPT ![i].public_api_path = end.path]
                   ELSE cords
       /\ last' = [op |-> "public_api_path", app |-> cords[i].app,
                   err |-> end.err, arg |-> end.arg]
       /\ given' = [at |-> i, candidate |-> candidate]
  /\ UNCHANGED <<binding, relay, codec, cfgvars, srvvars, lvars, rvars>>

SetterInit == PathInit

SetterNext ==
  \/ NewCord
  \/ SetPath
  \/ SetPassthroughPath
  \/ SetPublicApiPath

SetterSpec == SetterInit /\ [][SetterNext]_vars

(***************************************************************************)
(* Properties of the setters.                                              *)
(***************************************************************************)

\* The path grammar in the words of the specification: a leading slash,
\* segments of a lowercase letter or digit followed by lowercase letters,
\* digits, hyphens and underscores, separated by single slashes.
InGrammar(p) ==
  /\ p # <<>>
  /\ p[1] = "/"
  /\ p[Len(p)] # "/"
  /\ \A i \in 1..Len(p) : p[i] \in Alnum \cup {"-", "_", "/"}
  /\ \A i \in 1..(Len(p) - 1) : p[i] = "/" => p[i + 1] \in Alnum

\* The normalized form of a candidate: its leading and trailing slashes
\* replaced by exactly one leading slash.
Slashes(s) == {i \in 1..Len(s) : s[i] = "/"}
Core(s) ==
  IF Slashes(s) = 1..Len(s) THEN <<>>
  ELSE LET a == CHOOSE i \in 1..Len(s) : s[i] # "/" /\ (1..(i - 1)) \subseteq Slashes(s)
           b == CHOOSE i \in 1..Len(s) : s[i] # "/" /\ ((i + 1)..Len(s)) \subseteq Slashes(s)
       IN SubSeq(s, a, b)
NormalForm(s) == <<"/">> \o Core(s)

\* The last operation was the path setter, used on a registered endpoint.
PathWasSet == last.op = "path" /\ given.at \in 1..Len(cords)

\* C11 as stated: the path setter, given a candidate whose normalized form
\* is in the grammar, succeeds and stores the normalized form.
C11_ValidStored ==
  (PathWasSet /\ InGrammar(NormalForm(given.candidate)))
    => /\ last.err = ""
       /\ cords[given.at].path = NormalForm(given.candidate)

\* C11 as amended: the path setter, given a candidate whose normalized form
\* is in the grammar, either stores the normalized form (one leading slash,
\* no trailing slash, no double slash; an already normalized candidate
\* unchanged), or the normalized form is the path of an endpoint registered
\* on the owner and the setter fails with DuplicatePath.
C11_ValidStoredUnlessTaken ==
  (PathWasSet /\ InGrammar(NormalForm(given.candidate)))
    => LET n == NormalForm(given.candidate) IN
       \/ /\ last.err = ""
          /\ cords[given.at].path = n
          /\ n[1] = "/" /\ n[Len(n)] # "/" /\ ~HasDoubleSlash(n)
          /\ InGrammar(given.candidate) => cords[given.at].path = given.candidate
       \/ /\ last.err = "DuplicatePath"
          /\ last.arg = n
          /\ IsDuplicate(last.app, n)

\* The setter stored the normalized form of a candidate that needed
\* normalizing, on an owner with two endpoints.
C11_Witness ==
  /\ PathWasSet
  /\ last.err = ""
  /\ given.candidate = <<"/", "a", "/">>
  /\ cords[given.at].path = <<"/", "a">>
  /\ Len(cords) = 2

\* The candidates the specification calls invalid: one that is empty, has
\* a double slash inside, has a segment starting with an uppercase letter,
\* or holds a character other than lowercase letters, digits, hyphen,
\* underscore and slash.
Upper == {"A"}
Rejectable(c) ==
  \/ c = <<>>
  \/ HasDoubleSlash(NormalForm(c))
  \/ \E i \in 1..Len(c) : c[i] \in Upper /\ (i = 1 \/ c[i - 1] = "/")
  \/ \E i \in 1..Len(c) : c[i] \notin Alnum \cup {"-", "_", "/"}

\* C12: an invalid candidate fails with InvalidPath and nothing is stored,
\* whether it is handed to the path setter of a registered endpoint or given
\* as the path at construction (the endpoint is then not constructed).
C12_InvalidRejected ==
  /\ (PathWasSet /\ Rejectable(given.candidate))
       => /\ last.err = "InvalidPath"
          /\ cords[given.at].path \notin
               {given.candidate, NormalForm(given.candidate)}
  /\ (last.op = "declare" /\ given.candidate # NoPath
        /\ Rejectable(given.candidate))
       => /\ last.err = "InvalidPath"
          /\ given.at = 0

\* C19: a primary path, once assigned, is never changed by any later
\* operation on the endpoint, another use of the path setter included.
C19_PathImmutable ==
  [][\A i \in 1..Len(cords) :
       cords[i].path # NoPath => cords'[i].path = cords[i].path]_vars

\* C20: a public alias path is stored normalized and within the grammar, and
\* a declaration that succeeds has no public alias path that is the primary
\* path or the public alias path of an endpoint declared before it on the
\* same owner (such a declaration fails with DuplicatePath).
C20_AliasFollowsPathContract ==
  /\ \A i \in 1..Len(cords) :
       cords[i].public_api_path # NoPath => InGrammar(cords[i].public_api_path)
  /\ (last.op = "declare" /\ last.err = "" /\ given.at = Len(cords))
       => LET new == cords[Len(cords)] IN
          new.public_api_path # NoPath
            => \A j \in 1..(Len(cords) - 1) :
                 cords[j].app = new.app
                   => /\ cords[j].path # new.public_api_path
                      /\ cords[j].public_api_path # new.public_api_path

\* C13: a declaration or a bind that fails with InvalidPath or DuplicatePath
\* registers nothing, assigns no path and attaches no function: every
\* registered endpoint has the paths it had before the attempt, and none
\* that had no function has one after it.
C13_NoPartialRegistration ==
  [][(last'.op \in {"declare", "bind"} /\ last'.err # "")
       => /\ Len(cords') = Len(cords)
          /\ \A i \in 1..Len(cords) :
               /\ cords'[i].path = cords[i].path
               /\ cords'[i].passthrough_path = cords[i].passthrough_path
               /\ cords'[i].public_api_path = cords[i].public_api_path
               /\ cords[i].func = NoPath => cords'[i].func = NoPath]_vars

(***************************************************************************)
(* Bind: Cord.__call__ and the callable it returns.  binding holds the     *)
(* execution context's current answer (is_local), the number of times it   *)
(* was asked, the callable returned with the context and the streaming     *)
(* flag as they were at the bind, and what each invocation of the callable *)
(* ran, with the context and the flag as they were at the invocation.      *)
(***************************************************************************)

\* "return self._local_call if not self._stream else self._local_stream_call"
\* and the same for the remote pair.
Returned(local, flag) ==
  IF local
    THEN IF ~flag THEN "_local_call" ELSE "_local_stream_call"
    ELSE IF ~flag THEN "_remote_call" ELSE "_remote_stream_call"

\* What an invocation of the returned bound method runs: the method itself.
\* None of the four consults is_local() or self._stream.  (PlaysMut: the
\* role and the mode chosen again at each call.)
PlaysMut(callable, local, flag) ==
  [role |-> IF local THEN "local" ELSE "remote",
   mode |-> IF flag THEN "stream" ELSE "unary"]
Plays(callable, local, flag) ==
  [role |-> IF callable \in {"_local_call", "_local_stream_call"}
              THEN "local" ELSE "remote",
   mode |-> IF callable \in {"_local_stream_call", "_remote_stream_call"}
              THEN "stream" ELSE "unary"]

\* Cord.__call__ on an endpoint declared without paths: the defaults from
\* func.__name__ are set first, and raise for a name outside the grammar;
\* then is_local() is asked and a bound method returned.
CallBind ==
  /\ binding.callable = "none"
  /\ \E name \in FuncNames :
       binding' =
         IF PathSetter(Owner, name).err # "" \/ PlainSetter(name).err # ""
           THEN [binding EXCEPT !.callable = "raised"]
           ELSE [binding EXCEPT !.queries = @ + 1,
                                !.callable = Returned(binding.is_local, stream),
                                !.local = binding.is_local,
                                !.flag = stream]
  /\ UNCHANGED <<given, relay, codec, cfgvars, srvvars, lvars, rvars, pvars>>

\* The returned callable is invoked.
Invoke ==
  /\ binding.callable \notin {"none", "raised"}
  /\ Len(binding.ran) < MaxCalls
  /\ binding' =
       [binding EXCEPT !.ran =
          Append(@, [played |-> Plays(binding.callable, binding.is_local, stream),
                     local |-> binding.is_local,
                     flag |-> stream])]
  /\ UNCHANGED <<given, relay, codec, cfgvars, srvvars, lvars, rvars, pvars>>

\* The execution context reports something else from now on.
SwitchContext ==
  /\ binding' = [binding EXCEPT !.is_local = ~@]
  /\ UNCHANGED <<given, relay, codec, cfgvars, srvvars, lvars, rvars, pvars>>

\* self._stream is assigned after the bind.
SetStream ==
  /\ binding.callable \notin {"none", "raised"}
  /\ stream' = ~stream
  /\ UNCHANGED <<passthrough, provision_timeout>>
  /\ UNCHANGED <<xvars, srvvars, lvars, rvars, pvars>>

BindInit ==
  /\ stream \in BOOLEAN
  /\ passthrough = FALSE
  /\ provision_timeout = 0
  /\ n503 = 0
  /\ final = 200
  /\ text = ""
  /\ lpc = "idle"
  /\ tries = 0
  /\ elapsed = 0
  /\ posts = 0
  /\ open = 0
  /\ received = <<>>
  /\ yielded = <<>>
  /\ result = None
  /\ outcome = NoOutcome
  /\ passthrough_port = NoPort
  /\ reqs = <<>>
  /\ cords = <<>>
  /\ last = NoOp
  /\ given = NoGiven
  /\ \E local \in BOOLEAN :
       binding = [is_local |-> local, queries |-> 0, callable |-> "none",
                  local |-> FALSE, flag |-> FALSE, ran |-> <<>>]
  /\ relay = NoRelay
  /\ codec = NoCodec

BindNext ==
  \/ CallBind
  \/ Invoke
  \/ SwitchContext
  \/ SetStream

BindSpec == BindInit /\ [][BindNext]_vars

\* C14: a bind that returned a callable asked the execution context exactly
\* once and returned the local stub or the remote handler, unary or
\* streaming, by the context and the streaming flag of that moment; every
\* invocation of the callable played that role in that mode, whatever the
\* context and the flag were at the invocation.
C14_RoleFixedAtBind ==
  binding.callable \notin {"none", "raised"}
    => LET role == IF binding.local THEN "local" ELSE "remote"
           mode == IF binding.flag THEN "stream" ELSE "unary"
       IN /\ binding.queries = 1
          /\ binding.callable \in
               {"_local_call", "_local_stream_call", "_remote_call",
                "_remote_stream_call"}
          /\ (binding.callable \in {"_local_call", "_local_stream_call"})
               <=> binding.local
          /\ (binding.callable \in {"_local_stream_call", "_remote_stream_call"})
               <=> binding.flag
          /\ \A k \in 1..Len(binding.ran) :
               binding.ran[k].played = [role |-> role, mode |-> mode]

\* The callable was invoked after the context and the flag had both changed.
C14_Witness ==
  /\ binding.callable = "_remote_call"
  /\ \E k \in 1..Len(binding.ran) :
       /\ binding.ran[k].local /\ binding.ran[k].flag
       /\ binding.ran[k].played = [role |-> "remote", mode |-> "unary"]

(***************************************************************************)
(* Remote side: _remote_call and _remote_stream_call, and the sidecar the  *)
(* passthrough forwards to.  relay holds the body the sidecar sends (its   *)
(* chunks), how many of them have arrived, the unread bytes buffered in    *)
(* response.content, whether the end of the body has arrived, what was     *)
(* invoked, what the unary call returned and what the streaming call has   *)
(* yielded.  Bytes are one-character strings.                              *)
(***************************************************************************)
Chunks == {<<"1">>, <<"2">>, <<"1", "\n">>, <<"\n", "2">>}
Bodies == UNION {[1..n -> Chunks] : n \in 0..MaxChunks}

\* What the wrapped function returns, and the items it yields when it is a
\* generator.
FuncReturn == <<"r">>
FuncItems == <<<<"x">>, <<"y">>>>

Nothing == <<>>            \* no value (yet)
JsonError == <<"!">>       \* response.json() raised

\* response.json(): the whole body is read and parsed; white space around
\* the value is not part of it.  The bodies here hold digits and newlines:
\* one run of digits is a number, anything else does not parse.
IsDigit(b) == b \in {"1", "2"}
Digits(bytes) == SelectSeq(bytes, IsDigit)
JsonLoads(bytes) ==
  IF /\ Digits(bytes) # <<>>
     /\ \A i, j \in 1..Len(bytes) :
          (i < j /\ IsDigit(bytes[i]) /\ IsDigit(bytes[j]))
            => \A k \in i..j : IsDigit(bytes[k])
    THEN Digits(bytes)
    ELSE JsonError

\* StreamReader.readline on the buffered bytes: up to and including the
\* first newline.  (Iterating response.content iterates readline.)
Newlines(bytes) == {i \in 1..Len(bytes) : bytes[i] = "\n"}
FirstNewline(bytes) ==
  CHOOSE i \in Newlines(bytes) : \A j \in Newlines(bytes) : i <= j

\* _remote_call up to its first await.
RemoteCall ==
  /\ relay.pc = "start"
  /\ ~stream
  /\ relay' =
       IF passthrough
         THEN [relay EXCEPT !.invoked = "forward", !.pc = "reading"]
         ELSE [relay EXCEPT !.invoked = "func", !.returned = FuncReturn,
                            !.pc = "done"]
  /\ UNCHANGED <<given, binding, codec, cfgvars, srvvars, lvars, rvars, pvars>>

\* _remote_stream_call, started by the first pull of the response.
RemoteStreamCall ==
  /\ relay.pc = "start"
  /\ stream
  /\ relay' =
       IF passthrough
         THEN [relay EXCEPT !.invoked = "forward", !.pc = "reading"]
         ELSE [relay EXCEPT !.invoked = "func", !.pc = "func"]
  /\ UNCHANGED <<given, binding, codec, cfgvars, srvvars, lvars, rvars, pvars>>

\* The sidecar's next chunk, or the end of its body, arrives.
Feed ==
  /\ relay.invoked = "forward"
  /\ ~relay.eof
  /\ relay' =
       IF relay.arrived < Len(relay.body)
         THEN [relay EXCEPT !.buffer = @ \o relay.body[relay.arrived + 1],
                            !.arrived = @ + 1]
         ELSE [relay EXCEPT !.eof = TRUE]
  /\ UNCHANGED <<given, binding, codec, cfgvars, srvvars, lvars, rvars, pvars>>

\* "return await response.json()"
Json ==
  /\ relay.pc = "reading"
  /\ ~stream
  /\ relay.eof
  /\ relay' = [relay EXCEPT !.returned = JsonLoads(relay.buffer),
                            !.buffer = <<>>, !.pc = "done"]
  /\ UNCHANGED <<given, binding, codec, cfgvars, srvvars, lvars, rvars, pvars>>

\* One turn of "async for content in response.content: yield content".
RelayLine ==
  /\ relay.pc = "reading"
  /\ stream
  /\ \/ /\ Newlines(relay.buffer) # {}
        /\ LET n == FirstNewline(relay.buffer) IN
           relay' = [relay EXCEPT
                       !.emitted = Append(@, SubSeq(relay.buffer, 1, n)),
                       !.buffer = SubSeq(relay.buffer, n + 1, Len(relay.buffer))]
     \/ /\ Newlines(relay.buffer) = {}
        /\ relay.eof
        /\ relay' =
             IF relay.buffer # <<>>
               THEN [relay EXCEPT !.emitted = Append(@, relay.buffer),
                                  !.buffer = <<>>]
               ELSE [relay EXCEPT !.pc = "done"]
  /\ UNCHANGED <<given, binding, codec, cfgvars, srvvars, lvars, rvars, pvars>>

\* "async for data in self._func(*args, **kwargs): yield data"
FuncYield ==
  /\ relay.pc = "func"
  /\ relay' =
       IF Len(relay.emitted) < Len(FuncItems)
         THEN [relay EXCEPT
                 !.emitted = Append(@, FuncItems[Len(relay.emitted) + 1])]
         ELSE [relay EXCEPT !.pc = "done"]
  /\ UNCHANGED <<given, binding, codec, cfgvars, srvvars, lvars, rvars, pvars>>

RelayInit ==
  /\ stream \in BOOLEAN
  /\ passthrough \in BOOLEAN
  /\ provision_timeout = 0
  /\ n503 = 0
  /\ final = 200
  /\ text = ""
  /\ lpc = "idle"
  /\ tries = 0
  /\ elapsed = 0
  /\ posts = 0
  /\ open = 0
  /\ received = <<>>
  /\ yielded = <<>>
  /\ result = None
  /\ outcome = NoOutcome
  /\ passthrough_port = NoPort
  /\ reqs = <<>>
  /\ cords = <<>>
  /\ last = NoOp
  /\ given = NoGiven
  /\ binding = NoBinding
  /\ \E body \in Bodies :
       relay = [pc |-> "start", body |-> body, arrived |-> 0,
                buffer |-> <<>>, eof |-> FALSE, invoked |-> "none",
                returned |-> Nothing, emitted |-> <<>>]
  /\ codec = NoCodec

RelayNext ==
  \/ RemoteCall
  \/ RemoteStreamCall
  \/ Feed
  \/ Json
  \/ RelayLine
  \/ FuncYield

RelaySpec == RelayInit /\ [][RelayNext]_vars

RECURSIVE Flatten(_)
Flatten(chunks) ==
  IF chunks = <<>> THEN <<>> ELSE Head(chunks) \o Flatten(Tail(chunks))

\* C15: with passthrough set the wrapped function is not invoked; a finished
\* unary call has returned the value of the sidecar's JSON body; a streaming
\* call has emitted the first chunks of the sidecar's body, one for one, and
\* a finished one all of them.
C15_PassthroughRelay ==
  passthrough
    => /\ relay.invoked # "func"
       /\ (~stream /\ relay.pc = "done"
             /\ JsonLoads(Flatten(relay.body)) # JsonError)
            => relay.returned = Digits(Flatten(relay.body))
       /\ stream
            => /\ Len(relay.emitted) <= Len(relay.body)
               /\ relay.emitted = SubSeq(relay.body, 1, Len(relay.emitted))
               /\ relay.pc = "done" => relay.emitted = relay.body

(***************************************************************************)
(* The envelope.  A Python value is a record: its type t, the text s of a  *)
(* scalar, and the members of a container (kids; for a dict the keys and   *)
(* values alternate).  A pickle is a sequence of opcodes, gzip wraps it in *)
(* a header and a length trailer, base64 regroups it by three with         *)
(* padding.                                                                *)
(***************************************************************************)
Scalar(t, txt) == [t |-> t, s |-> txt, kids |-> <<>>]
List(kids) == [t |-> "list", s |-> "", kids |-> kids]
Dict(kids) == [t |-> "dict", s |-> "", kids |-> kids]
Tuple(kids) == [t |-> "tuple", s |-> "", kids |-> kids]
Mark == [t |-> "mark", s |-> "", kids |-> <<>>]
Undecodable == [t |-> "error", s |-> "", kids |-> <<>>]

Int1 == Scalar("int", "1")
StrA == Scalar("str", "a")
NoneV == Scalar("NoneType", "None")
TrueV == Scalar("bool", "True")
Scalars == {Int1, StrA, NoneV, TrueV}
Values ==
  Scalars
    \cup {List(<<>>), List(<<Int1>>), List(<<StrA, NoneV>>)}
    \cup {Dict(<<>>), Dict(<<StrA, Int1>>), Dict(<<StrA, List(<<Int1>>)>>)}
    \cup {List(<<Dict(<<StrA, Int1>>)>>), List(<<List(<<Int1>>), TrueV>>)}

\* *args of a call, and **kwargs.
ArgTuples ==
  {Tuple(<<>>), Tuple(<<Int1, StrA>>)} \cup {Tuple(<<v>>) : v \in Values}
KwargDicts == {Dict(<<>>)} \cup {Dict(<<StrA, v>>) : v \in Values}

\* The opcode that pushes a scalar.
Push(v) == v.t \o ":" \o v.s

\* pickle.dumps, without the PROTO and STOP that frame it.
RECURSIVE Save(_)
RECURSIVE SaveAll(_)
Save(v) ==
  IF v.t = "list" THEN <<"EMPTY_LIST", "MARK">> \o SaveAll(v.kids) \o <<"APPENDS">>
  ELSE IF v.t = "dict"
    THEN <<"EMPTY_DICT", "MARK">> \o SaveAll(v.kids) \o <<"SETITEMS">>
  ELSE IF v.t = "tuple" THEN <<"MARK">> \o SaveAll(v.kids) \o <<"TUPLE">>
  ELSE <<Push(v)>>
SaveAll(vs) == IF vs = <<>> THEN <<>> ELSE Save(Head(vs)) \o SaveAll(Tail(vs))

\* pickle.dumps(obj)
Dumps(v) == <<"PROTO">> \o Save(v) \o <<"STOP">>

\* The unpickler's stack machine.
TopMark(stack) ==
  CHOOSE i \in 1..Len(stack) :
    stack[i] = Mark /\ \A j \in (i + 1)..Len(stack) : stack[j] # Mark
HasMark(stack) == \E i \in 1..Len(stack) : stack[i] = Mark
RECURSIVE Run(_, _)
Run(ops, stack) ==
  IF ops = <<>> THEN Undecodable
  ELSE LET op == Head(ops)
           rest == Tail(ops)
       IN
       IF op = "PROTO" THEN Run(rest, stack)
       ELSE IF op = "STOP"
         THEN IF stack = <<>> THEN Undecodable ELSE stack[Len(stack)]
       ELSE IF op = "MARK" THEN Run(rest, Append(stack, Mark))
       ELSE IF op = "EMPTY_LIST" THEN Run(rest, Append(stack, List(<<>>)))
       ELSE IF op = "EMPTY_DICT" THEN Run(rest, Append(stack, Dict(<<>>)))
       ELSE IF op \in {"APPENDS", "SETITEMS", "TUPLE"}
         THEN IF ~HasMark(stack) THEN Undecodable
              ELSE LET m == TopMark(stack)
                       items == SubSeq(stack, m + 1, Len(stack))
                       below == SubSeq(stack, 1, m - 1)
                   IN IF op = "TUPLE" THEN Run(rest, Append(below, Tuple(items)))
                      ELSE IF below = <<>> THEN Undecodable
                      ELSE LET c == below[Len(below)] IN
                           Run(rest, [below EXCEPT ![Len(below)] =
                                        [c EXCEPT !.kids = @ \o items]])
       ELSE IF \E v \in Scalars : Push(v) = op
         THEN Run(rest, Append(stack, CHOOSE v \in Scalars : Push(v) = op))
       ELSE Undecodable

\* pickle.loads(data)
Loads(ops) == Run(ops, <<>>)

\* fickling's safety check: a pickle that imports or calls is unsafe.
Safe(ops) == \A i \in 1..Len(ops) : ops[i] \notin {"GLOBAL", "REDUCE"}

\* fickling.load(data): checked, then unpickled.
Load(ops) == IF Safe(ops) THEN Loads(ops) ELSE Undecodable

\* gzip.compress(data) and gzip.decompress(data)
Compress(data) == <<"1f8b">> \o data \o <<ToString(Len(data))>>
Decompress(z) ==
  IF Len(z) >= 2 /\ z[1] = "1f8b" /\ z[Len(z)] = ToString(Len(z) - 2)
    THEN SubSeq(z, 2, Len(z) - 1)
    ELSE <<>>

\* base64.b64encode(data).decode() and base64.b64decode(text): groups of
\* three bytes, the last one padded.  (B64DecodeMut: the padded group
\* dropped.)
Pad(g) == IF Len(g) = 3 THEN g ELSE IF Len(g) = 2 THEN g \o <<"=">> ELSE g \o <<"=", "=">>
Unpad(g) == SelectSeq(g, LAMBDA b : b # "=")
B64Encode(data) ==
  [k \in 1..((Len(data) + 2) \div 3) |->
     Pad(SubSeq(data, 3 * k - 2, IF 3 * k <= Len(data) THEN 3 * k ELSE Len(data)))]
RECURSIVE B64DecodeMut(_)
B64DecodeMut(b64) ==
  IF b64 = <<>> THEN <<>>
  ELSE IF Unpad(Head(b64)) # Head(b64) THEN <<>>
  ELSE Head(b64) \o B64DecodeMut(Tail(b64))
RECURSIVE B64Decode(_)
B64Decode(b64) ==
  IF b64 = <<>> THEN <<>> ELSE Unpad(Head(b64)) \o B64Decode(Tail(b64))

\* One field of request_payload, and its decoding in _request_handler.
EncodeField(v) == B64Encode(Compress(Dumps(v)))
DecodeField(b64) == Load(Decompress(B64Decode(b64)))

\* _call: request_payload is built from args and kwargs.
EncodePayload ==
  /\ codec.pc = "call"
  /\ codec' = [codec EXCEPT !.pc = "sent",
                            !.payload = [args |-> EncodeField(codec.args),
                                         kwargs |-> EncodeField(codec.kwargs)]]
  /\ UNCHANGED <<given, binding, relay, cfgvars, srvvars, lvars, rvars, pvars>>

\* _request_handler: args and kwargs are decoded from the request.
DecodePayload ==
  /\ codec.pc = "sent"
  /\ codec' = [codec EXCEPT !.pc = "decoded",
                            !.decoded = [args |-> DecodeField(codec.payload.args),
                                         kwargs |-> DecodeField(codec.payload.kwargs)]]
  /\ UNCHANGED <<given, binding, relay, cfgvars, srvvars, lvars, rvars, pvars>>

CodecInit ==
  /\ stream = FALSE
  /\ passthrough = FALSE
  /\ provision_timeout = 0
  /\ n503 = 0
  /\ final = 200
  /\ text = ""
  /\ lpc = "idle"
  /\ tries = 0
  /\ elapsed = 0
  /\ posts = 0
  /\ open = 0
  /\ received = <<>>
  /\ yielded = <<>>
  /\ result = None
  /\ outcome = NoOutcome
  /\ passthrough_port = NoPort
  /\ reqs = <<>>
  /\ cords = <<>>
  /\ last = NoOp
  /\ given = NoGiven
  /\ binding = NoBinding
  /\ relay = NoRelay
  /\ \E a \in ArgTuples, k \in KwargDicts :
       codec = [pc |-> "call", args |-> a, kwargs |-> k,
                payload |-> [args |-> <<>>, kwargs |-> <<>>],
                decoded |-> [args |-> Undecodable, kwargs |-> Undecodable]]

CodecNext ==
  \/ EncodePayload
  \/ DecodePayload

CodecSpec == CodecInit /\ [][CodecNext]_vars

\* C17: what the remote side decodes from the envelope the local side built
\* is exactly (args, kwargs); and each field of the envelope, decoded by
\* itself, gives back its own value whatever the other field holds.
C17_RoundTrip ==
  /\ codec.pc = "decoded"
       => /\ codec.decoded.args = codec.args
          /\ codec.decoded.kwargs = codec.kwargs
  /\ codec.pc \in {"sent", "decoded"}
       => /\ Load(Decompress(B64Decode(codec.payload.args))) = codec.args
          /\ Load(Decompress(B64Decode(codec.payload.kwargs))) = codec.kwargs
          /\ \A a \in ArgTuples :
               a # codec.args => B64Encode(Compress(Dumps(a))) # codec.payload.args

\* A nested argument and a nested keyword argument came back as they were.
C17_Witness ==
  /\ codec.pc = "decoded"
  /\ codec.args = Tuple(<<List(<<Dict(<<StrA, Int1>>)>>)>>)
  /\ codec.kwargs = Dict(<<StrA, List(<<Int1>>)>>)
  /\ codec.decoded = [args |-> codec.args, kwargs |-> codec.kwargs]

====
